---- MODULE Spec2Model ----
(***************************************************************************)
(* Buffer pool manager instance (buffer_pool_manager_instance.cpp) and its *)
(* LRU replacer (lru_replacer.cpp, first definition) as a state machine.   *)
(* Spec, SpecOwn, SpecPart: calls are made one at a time, each public       *)
(* operation is one action. SpecLRU: the replacer on its own. SpecTwo: the *)
(* second LRUReplacer definition receives the manager's calls as well.     *)
(* SpecConc: threads call the operations concurrently, one step per        *)
(* access to shared state. The disk manager is outside the source; its     *)
(* calls are recorded, with the page id and the frame whose buffer they    *)
(* are given, in call order.                                               *)
(***************************************************************************)
EXTENDS Integers, Sequences, FiniteSets, TLC

\* ---------------------------------------------------------------- bounds
PoolSize == 2        \* pool_size passed to the constructor
MaxPageId == 3       \* callers pass page ids up to this one; NewPage hands
                     \* out ids while next_page_id_ <= MaxPageId * num_instances_
MaxPin == 2          \* a page is fetched while its pin_count_ is below this
MaxInstances == 2    \* num_instances of the partitioned constructor
NumFrames == 3       \* frame ids handed to a stand-alone LRUReplacer
NumThreads == 2      \* threads that call the manager concurrently
MaxCalls == 5        \* operations the threads start, all together

\* ------------------------------------------------------------- constants
INVALID_PAGE_ID == -1

Frames == 0 .. (PoolSize - 1)
PageIds == {INVALID_PAGE_ID} \cup (0 .. MaxPageId)
NoFrame == -1

VARIABLES
  pages,          \* pages_[f] = [page_id, pin_count, is_dirty]
  page_table,     \* page_table_: page id -> frame id (a map with its own domain)
  free_list,      \* free_list_: std::list<frame_id_t>, front first
  next_page_id,   \* next_page_id_
  num_instances,  \* num_instances_
  instance_index, \* instance_index_
  pin_lists,      \* LRUReplacer::pin_lists_, front first
  pin_map_table,  \* LRUReplacer::pin_map_table_: frame -> "iter" | "end"
  num_pages,      \* LRUReplacer::num_pages_
  allocated,      \* observation: the page ids NewPage has returned
  eligOrder,      \* observation: frames in the order they became eligible
  last,           \* observation: the last call, its result and its disk calls
  lru2,           \* LRUReplacer, second definition: pin_lists_,
                  \* pin_map_table_, pin_count_ (on: it has been constructed)
  latch,          \* latch_: the thread that holds it, 0 when free
  mutex_lock,     \* LRUReplacer::mutex_lock_: its holder, 0 when free
  pc,             \* pc[t]: where thread t is in its operation
  loc,            \* loc[t]: the operation's arguments and local variables
  data,           \* data[f]: the page whose bytes pages_[f].data_ holds
  calls           \* operations started so far

vars == <<pages, page_table, free_list, next_page_id, num_instances,
          instance_index, pin_lists, pin_map_table, num_pages,
          allocated, eligOrder, last, lru2, latch, mutex_lock, pc, loc,
          data, calls>>

concVars == <<latch, mutex_lock, pc, loc, data, calls>>

Threads == 1 .. NumThreads

mgrVars == <<pages, page_table, free_list, next_page_id, num_instances,
             instance_index, allocated>>

\* ---------------------------------------------------------------- helpers
Range(s) == {s[i] : i \in 1 .. Len(s)}

Remove(s, x) == SelectSeq(s, LAMBDA y : y # x)

Reverse(s) == [i \in 1 .. Len(s) |-> s[Len(s) + 1 - i]]

MapErase(m, k) == [x \in (DOMAIN m) \ {k} |-> m[x]]

MapPut(m, k, v) == [x \in (DOMAIN m) \cup {k} |-> IF x = k THEN v ELSE m[x]]

EmptyMap == [x \in {} |-> 0]

\* The record of a call: what it was, the page it found or made resident
\* (INVALID_PAGE_ID when none), what it returned, the frame it acted on, where
\* a new frame came from, and its calls on frame buffers.
Call(op, page, ret, frame, src, io) ==
  [op |-> op, page |-> page, ret |-> ret, frame |-> frame, src |-> src,
   io |-> io, oldest |-> NoFrame]

\* The calls on a frame's buffer (data_), in the order the code makes them.
WriteCall(p, f) == [call |-> "WritePage", page |-> p, frame |-> f]

\* Mutant of ReadCall: the read is keyed by the page the frame held before.
ReadCall_OldPage(p, f) ==
  [call |-> "ReadPage", page |-> pages[f].page_id, frame |-> f]

ReadCall(p, f) == [call |-> "ReadPage", page |-> p, frame |-> f]

ResetCall(f) == [call |-> "ResetMemory", page |-> INVALID_PAGE_ID, frame |-> f]

\* eligOrder after the replacer's list went from l to l2: a frame that entered
\* the list is the youngest, a frame that left it is forgotten.
Track(order, l, l2) ==
  LET kept == SelectSeq(order, LAMBDA f : f \in Range(l2))
      new == SelectSeq(l2, LAMBDA f : f \notin Range(l))
  IN kept \o Reverse(new)

\* ------------------------------------------------------------ LRUReplacer
\* Mutant of LRU_Size: Size() reports an empty replacer.
LRU_Size_Zero(l) == 0

LRU_Size(l) == Len(l)

LRU_Victim(l, m) ==
  IF Len(l) > 0
  THEN [ok |-> TRUE, frame |-> l[Len(l)],
        list |-> SubSeq(l, 1, Len(l) - 1),
        map |-> MapErase(m, l[Len(l)])]
  ELSE [ok |-> FALSE, frame |-> 0, list |-> l, map |-> m]

LRU_Pin(l, m, f) ==
  IF f \in DOMAIN m /\ m[f] # "end"
  THEN [list |-> Remove(l, f), map |-> MapPut(m, f, "end")]
  ELSE [list |-> l, map |-> m]

\* Mutant of LRU_Unpin: emplace_back in place of emplace_front.
LRU_Unpin_Back(l, m, n, f) ==
  IF f \notin DOMAIN m \/ m[f] = "end"
  THEN IF Len(l) < n
       THEN [list |-> l \o <<f>>, map |-> MapPut(m, f, "iter")]
       ELSE [list |-> l, map |-> m]
  ELSE [list |-> l, map |-> m]

LRU_Unpin(l, m, n, f) ==
  IF f \notin DOMAIN m \/ m[f] = "end"
  THEN IF Len(l) < n
       THEN [list |-> <<f>> \o l, map |-> MapPut(m, f, "iter")]
       ELSE [list |-> l, map |-> m]
  ELSE [list |-> l, map |-> m]

\* ------------------------------------- LRUReplacer, second definition
\* The replacer's calls, as the manager makes them.
VictimCall == [m |-> "Victim", f |-> NoFrame]

PinCall(f) == [m |-> "Pin", f |-> f]

UnpinCall(f) == [m |-> "Unpin", f |-> f]

\* No second replacer, and a second replacer after its constructor.
NoReplacer2 ==
  [on |-> FALSE, list |-> <<>>, map |-> EmptyMap, count |-> EmptyMap]

NewReplacer2 ==
  [on |-> TRUE, list |-> <<>>, map |-> EmptyMap, count |-> EmptyMap]

\* pin_count_[f]: operator[] makes a missing entry 0.
PinCount2(s, f) == IF f \in DOMAIN s.count THEN s.count[f] ELSE 0

LRU2_Victim(s) ==
  IF Len(s.list) > 0
  THEN [s EXCEPT !.list = SubSeq(s.list, 1, Len(s.list) - 1),
                 !.map = MapErase(s.map, s.list[Len(s.list)])]
  ELSE s

LRU2_Pin(s, f) ==
  IF f \in DOMAIN s.map /\ s.map[f] # "end"
  THEN [s EXCEPT !.count = MapPut(s.count, f, PinCount2(s, f) + 1),
                 !.list = Remove(s.list, f),
                 !.map = MapPut(s.map, f, "end")]
  ELSE s

LRU2_Unpin(s, n, f) ==
  IF f \notin DOMAIN s.map
  THEN IF Len(s.list) < n
       THEN [s EXCEPT !.count = MapPut(s.count, f, 0),
                      !.list = <<f>> \o s.list,
                      !.map = MapPut(s.map, f, "iter")]
       ELSE s
  ELSE IF PinCount2(s, f) - 1 = 0
       THEN [s EXCEPT !.count = MapPut(s.count, f, 0),
                      !.list = <<f>> \o s.list,
                      !.map = MapPut(s.map, f, "iter")]
       ELSE [s EXCEPT !.count = MapPut(s.count, f, PinCount2(s, f) - 1)]

\* The second replacer after the calls cs, in their order.
RECURSIVE LRU2_Run(_, _, _)
LRU2_Run(s, n, cs) ==
  IF cs = <<>> THEN s
  ELSE LET c == Head(cs)
           s2 == IF c.m = "Victim" THEN LRU2_Victim(s)
                 ELSE IF c.m = "Pin" THEN LRU2_Pin(s, c.f)
                 ELSE LRU2_Unpin(s, n, c.f)
       IN LRU2_Run(s2, n, Tail(cs))

\* ------------------------------------------------------------------- Init
\* No thread has called anything.
NoLocals ==
  [op |-> "none", page_id |-> INVALID_PAGE_ID, is_dirty |-> FALSE,
   frame_id |-> NoFrame, i |-> 0, ret |-> FALSE, io |-> <<>>,
   call |-> "none", arg |-> NoFrame, next |-> "idle", size |-> 0]

InitThreads ==
  /\ latch = 0
  /\ mutex_lock = 0
  /\ pc = [t \in Threads |-> "idle"]
  /\ loc = [t \in Threads |-> NoLocals]
  /\ data = [f \in Frames |-> INVALID_PAGE_ID]
  /\ calls = 0

InitWith(n, i) ==
  /\ pages = [f \in Frames |->
                [page_id |-> INVALID_PAGE_ID, pin_count |-> 0,
                 is_dirty |-> FALSE]]
  /\ page_table = EmptyMap
  /\ free_list = [k \in 1 .. PoolSize |-> k - 1]
  /\ next_page_id = i
  /\ num_instances = n
  /\ instance_index = i
  /\ pin_lists = <<>>
  /\ pin_map_table = EmptyMap
  /\ num_pages = PoolSize
  /\ allocated = {}
  /\ eligOrder = <<>>
  /\ last = Call("init", INVALID_PAGE_ID, FALSE, NoFrame, "none", <<>>)
  /\ InitThreads

Init == InitWith(1, 0) /\ lru2 = NoReplacer2

\* --------------------------------------------- BufferPoolManagerInstance
\* Mutant of AllocatePage: the next id is one more, whatever num_instances_.
AllocatePage_PlusOne(next, n) == [id |-> next, next |-> next + 1]

\* AllocatePage: the id handed out and the next one.
AllocatePage(next, n) == [id |-> next, next |-> next + n]

\* free_list_.back() and pop_back().
FreeListBack(fl) == fl[Len(fl)]

FreeListPopBack(fl) == SubSeq(fl, 1, Len(fl) - 1)

\* free_list_.emplace_front(f).
FreeListEmplaceFront(fl, f) == <<f>> \o fl

\* Mutant of WriteBackCalls: the write-back is forgotten.
WriteBackCalls_Skip(f) == <<>>

\* if (pages_[f].IsDirty()) WritePage(pages_[f].GetPageId(), pages_[f].GetData())
WriteBackCalls(f) ==
  IF pages[f].is_dirty THEN <<WriteCall(pages[f].page_id, f)>> ELSE <<>>

\* Mutant of UnpinDirty: is_dirty_ = is_dirty.
UnpinDirty_Assign(old, is_dirty) == is_dirty

\* is_dirty_ = is_dirty_ || is_dirty
UnpinDirty(old, is_dirty) == old \/ is_dirty

\* Mutant of UnpinRefused: only a negative pin count is refused.
UnpinRefused_Negative(pin_count) == pin_count < 0

\* if (pages_[P->second].GetPinCount() <= 0) return false
UnpinRefused(pin_count) == pin_count <= 0

\* The replacer's state r after the manager's calls cs on it, with eligOrder;
\* the second replacer, if there is one, gets the same calls.
SetReplacer(r, cs) ==
  /\ pin_lists' = r.list
  /\ pin_map_table' = r.map
  /\ eligOrder' = Track(eligOrder, pin_lists, r.list)
  /\ lru2' = IF lru2.on THEN LRU2_Run(lru2, num_pages, cs) ELSE lru2
  /\ UNCHANGED num_pages

KeepReplacer ==
  UNCHANGED <<pin_lists, pin_map_table, num_pages, eligOrder, lru2>>

\* Mutant of NewPageExhausted: the id is allocated before anything is tested.
NewPageExhausted_Unchecked(fl, l) == FALSE

\* if (free_list_.empty() && replacer_->Size() == 0) return nullptr
NewPageExhausted(fl, l) == fl = <<>> /\ LRU_Size(l) = 0

NewPgImp ==
  /\ next_page_id <= MaxPageId * num_instances
  /\ UNCHANGED concVars
  /\ IF NewPageExhausted(free_list, pin_lists)
     THEN /\ last' = Call("NewPage", INVALID_PAGE_ID, FALSE, NoFrame, "none", <<>>)
          /\ UNCHANGED mgrVars
          /\ KeepReplacer
     ELSE LET a == AllocatePage(next_page_id, num_instances)
              fromFree == free_list # <<>>
              v == LRU_Victim(pin_lists, pin_map_table)
          IN IF ~fromFree /\ ~v.ok
             THEN /\ next_page_id' = a.next
                  /\ last' = Call("NewPage", a.id, FALSE, NoFrame, "none", <<>>)
                  /\ UNCHANGED <<pages, page_table, free_list, num_instances,
                                 instance_index, allocated>>
                  /\ KeepReplacer
             ELSE LET frame_id == IF fromFree THEN FreeListBack(free_list)
                                  ELSE v.frame
                      old == pages[frame_id]
                      io == (IF fromFree THEN <<>> ELSE WriteBackCalls(frame_id))
                            \o <<ResetCall(frame_id)>>
                      pt == IF fromFree THEN page_table
                            ELSE MapErase(page_table, old.page_id)
                      r == IF fromFree
                           THEN LRU_Pin(pin_lists, pin_map_table, frame_id)
                           ELSE LRU_Pin(v.list, v.map, frame_id)
                  IN /\ next_page_id' = a.next
                     /\ allocated' = allocated \cup {a.id}
                     /\ free_list' = IF fromFree THEN FreeListPopBack(free_list)
                                     ELSE free_list
                     /\ pages' = [pages EXCEPT ![frame_id] =
                                    [page_id |-> a.id, pin_count |-> 1,
                                     is_dirty |-> FALSE]]
                     /\ page_table' = MapPut(pt, a.id, frame_id)
                     /\ SetReplacer(r, (IF fromFree THEN <<>>
                                         ELSE <<VictimCall>>)
                                        \o <<PinCall(frame_id)>>)
                     /\ last' = Call("NewPage", a.id, TRUE, frame_id,
                                     IF fromFree THEN "free" ELSE "victim", io)
                     /\ UNCHANGED <<num_instances, instance_index>>

FetchPgImp(page_id) ==
  /\ UNCHANGED concVars
  /\ IF page_id \in DOMAIN page_table
     THEN LET f == page_table[page_id]
          IN /\ pages[f].pin_count < MaxPin
             /\ SetReplacer(LRU_Pin(pin_lists, pin_map_table, f), <<PinCall(f)>>)
             /\ pages' = [pages EXCEPT ![f].pin_count = @ + 1]
             /\ last' = Call("FetchPage", page_id, TRUE, f, "hit", <<>>)
             /\ UNCHANGED <<page_table, free_list, next_page_id, num_instances,
                            instance_index, allocated>>
     ELSE LET fromFree == free_list # <<>>
              v == LRU_Victim(pin_lists, pin_map_table)
          IN IF ~fromFree /\ ~v.ok
             THEN /\ last' = Call("FetchPage", INVALID_PAGE_ID, FALSE, NoFrame, "none", <<>>)
                  /\ UNCHANGED mgrVars
                  /\ KeepReplacer
             ELSE LET frame_id == IF fromFree THEN FreeListBack(free_list)
                                  ELSE v.frame
                      old == pages[frame_id]
                      io == WriteBackCalls(frame_id)
                            \o <<ReadCall(page_id, frame_id)>>
                  IN /\ free_list' = IF fromFree THEN FreeListPopBack(free_list)
                                     ELSE free_list
                     /\ page_table' = MapPut(MapErase(page_table, old.page_id),
                                             page_id, frame_id)
                     /\ pages' = [pages EXCEPT ![frame_id] =
                                    [page_id |-> page_id, pin_count |-> 1,
                                     is_dirty |-> FALSE]]
                     /\ SetReplacer(IF fromFree
                                    THEN [list |-> pin_lists, map |-> pin_map_table]
                                    ELSE [list |-> v.list, map |-> v.map],
                                    IF fromFree THEN <<>> ELSE <<VictimCall>>)
                     /\ last' = Call("FetchPage", page_id, TRUE, frame_id,
                                     IF fromFree THEN "free" ELSE "victim", io)
                     /\ UNCHANGED <<next_page_id, num_instances, instance_index,
                                    allocated>>

DeletePgImp(page_id) ==
  /\ UNCHANGED concVars
  /\ IF page_id \notin DOMAIN page_table
     THEN /\ last' = Call("DeletePage", INVALID_PAGE_ID, TRUE, NoFrame, "none", <<>>)
          /\ UNCHANGED mgrVars
          /\ KeepReplacer
     ELSE LET f == page_table[page_id]
          IN IF pages[f].pin_count # 0
             THEN /\ last' = Call("DeletePage", page_id, FALSE, f, "none", <<>>)
                  /\ UNCHANGED mgrVars
                  /\ KeepReplacer
             ELSE /\ pages' = [pages EXCEPT ![f].page_id = INVALID_PAGE_ID,
                                            ![f].is_dirty = FALSE]
                  /\ free_list' = FreeListEmplaceFront(free_list, f)
                  /\ page_table' = MapErase(page_table, page_id)
                  /\ last' = Call("DeletePage", page_id, TRUE, f, "none", <<>>)
                  /\ UNCHANGED <<next_page_id, num_instances, instance_index,
                                 allocated>>
                  /\ KeepReplacer

UnpinPgImp(page_id, is_dirty) ==
  /\ UNCHANGED concVars
  /\ IF page_id \notin DOMAIN page_table
     THEN /\ last' = Call("UnpinPage", INVALID_PAGE_ID, FALSE, NoFrame, "none", <<>>)
          /\ UNCHANGED mgrVars
          /\ KeepReplacer
     ELSE LET f == page_table[page_id]
          IN IF UnpinRefused(pages[f].pin_count)
             THEN /\ last' = Call("UnpinPage", page_id, FALSE, f, "none", <<>>)
                  /\ UNCHANGED mgrVars
                  /\ KeepReplacer
             ELSE /\ pages' = [pages EXCEPT
                                 ![f].is_dirty = UnpinDirty(@, is_dirty),
                                 ![f].pin_count = @ - 1]
                  /\ IF pages[f].pin_count - 1 = 0
                     THEN SetReplacer(LRU_Unpin(pin_lists, pin_map_table,
                                                num_pages, f), <<UnpinCall(f)>>)
                     ELSE KeepReplacer
                  /\ last' = Call("UnpinPage", page_id, TRUE, f, "none", <<>>)
                  /\ UNCHANGED <<page_table, free_list, next_page_id,
                                 num_instances, instance_index, allocated>>

\* Mutant of FlushCalls: the page is written whether dirty or not.
FlushCalls_Always(page_id, f) == <<WriteCall(page_id, f)>>

\* if (pages_[f].IsDirty()) WritePage(page_id, pages_[f].GetData())
FlushCalls(page_id, f) ==
  IF pages[f].is_dirty THEN <<WriteCall(page_id, f)>> ELSE <<>>

FlushPgImp(page_id) ==
  /\ UNCHANGED concVars
  /\ IF page_id = INVALID_PAGE_ID \/ page_id \notin DOMAIN page_table
     THEN /\ last' = Call("FlushPage", INVALID_PAGE_ID, FALSE, NoFrame, "none", <<>>)
          /\ UNCHANGED mgrVars
          /\ KeepReplacer
     ELSE LET f == page_table[page_id]
              io == FlushCalls(page_id, f)
          IN /\ pages' = [pages EXCEPT ![f].is_dirty = FALSE]
             /\ last' = Call("FlushPage", page_id, TRUE, f, "none", io)
             /\ UNCHANGED <<page_table, free_list, next_page_id, num_instances,
                            instance_index, allocated>>
             /\ KeepReplacer

\* The WritePage calls of the loop over pages_[i .. pool_size_ - 1].
RECURSIVE FlushAllCalls(_)
FlushAllCalls(i) ==
  IF i >= PoolSize THEN <<>>
  ELSE WriteBackCalls(i) \o FlushAllCalls(i + 1)

FlushAllPgsImp ==
  LET io == FlushAllCalls(0)
  IN /\ pages' = [f \in Frames |-> [pages[f] EXCEPT !.is_dirty = FALSE]]
     /\ last' = Call("FlushAllPages", INVALID_PAGE_ID, TRUE, NoFrame, "none", io)
     /\ UNCHANGED <<page_table, free_list, next_page_id, num_instances,
                    instance_index, allocated>>
     /\ KeepReplacer
     /\ UNCHANGED concVars

Next ==
  \/ NewPgImp
  \/ \E p \in PageIds : FetchPgImp(p)
  \/ \E p \in PageIds : DeletePgImp(p)
  \/ \E p \in PageIds, b \in BOOLEAN : UnpinPgImp(p, b)
  \/ \E p \in PageIds : FlushPgImp(p)
  \/ FlushAllPgsImp

Spec == Init /\ [][Next]_vars

\* Callers that pass only page ids this instance's NewPage has returned.
NextOwn ==
  \/ NewPgImp
  \/ \E p \in allocated : FetchPgImp(p)
  \/ \E p \in allocated : DeletePgImp(p)
  \/ \E p \in allocated, b \in BOOLEAN : UnpinPgImp(p, b)
  \/ \E p \in allocated : FlushPgImp(p)
  \/ FlushAllPgsImp

SpecOwn == Init /\ [][NextOwn]_vars

\* The partitioned constructor: instance i of n.
InitPart ==
  /\ \E n \in 1 .. MaxInstances : \E i \in 0 .. (n - 1) : InitWith(n, i)
  /\ lru2 = NoReplacer2

\* The second LRUReplacer definition is given every call the manager makes
\* on its replacer.
InitTwo == InitWith(1, 0) /\ lru2 = NewReplacer2

\* pin_count_ has no lower limit in the code; the calls stop at -MaxPin.
NextTwo ==
  /\ \A f \in DOMAIN lru2.count : lru2.count[f] > -MaxPin
  /\ NextOwn

SpecTwo == InitTwo /\ [][NextTwo]_vars

SpecPart == InitPart /\ [][NextOwn]_vars

\* ------------------------------------------------ concurrent callers
\* Thread t is at pc[t]: "idle" between calls, "lock" before latch_ is
\* taken, then at the operation's steps, "replacer" and "in_replacer" around
\* a call of a replacer method, "return" before the operation returns.
Goto(t, l) == pc' = [pc EXCEPT ![t] = l]

SetLocals(t, r) == loc' = [loc EXCEPT ![t] = r]

\* The call of replacer method c on frame f, continuing at label n.
ReplacerCall(t, r, c, f, n) ==
  /\ SetLocals(t, [r EXCEPT !.call = c, !.arg = f, !.next = n])
  /\ Goto(t, "replacer")

\* The operation returns ret.
Returns(t, r, ret) ==
  /\ SetLocals(t, [r EXCEPT !.ret = ret])
  /\ Goto(t, "return")

\* A thread calls an operation. FlushAllPgsImp has no lock_guard: it starts
\* its loop at once.
CallOp(t, op, page_id, is_dirty) ==
  /\ pc[t] = "idle"
  /\ calls < MaxCalls
  /\ op \in {"NewPage", "FlushAllPages"} =>
       (page_id = INVALID_PAGE_ID /\ ~is_dirty)
  /\ op \in {"FetchPage", "DeletePage", "FlushPage"} => ~is_dirty
  /\ op = "NewPage" => next_page_id <= MaxPageId * num_instances
  /\ calls' = calls + 1
  /\ SetLocals(t, [NoLocals EXCEPT !.op = op, !.page_id = page_id,
                                   !.is_dirty = is_dirty])
  /\ Goto(t, IF op = "FlushAllPages" THEN "fa_test" ELSE "lock")
  /\ UNCHANGED <<mgrVars, latch, mutex_lock, data, last>>
  /\ KeepReplacer

\* std::lock_guard<std::mutex> lock(latch_)
Lock(t) ==
  /\ pc[t] = "lock"
  /\ latch = 0
  /\ latch' = t
  /\ Goto(t, "body")
  /\ UNCHANGED <<mgrVars, mutex_lock, loc, data, calls, last>>
  /\ KeepReplacer

\* std::lock_guard<std::mutex> lock_guard(mutex_lock_) of a replacer method
ReplacerLock(t) ==
  /\ pc[t] = "replacer"
  /\ mutex_lock = 0
  /\ mutex_lock' = t
  /\ Goto(t, "in_replacer")
  /\ UNCHANGED <<mgrVars, latch, loc, data, calls, last>>
  /\ KeepReplacer

\* The replacer method's body and its return, which releases mutex_lock_.
ReplacerRun(t) ==
  LET r == loc[t]
      v == LRU_Victim(pin_lists, pin_map_table)
  IN /\ pc[t] = "in_replacer"
     /\ mutex_lock' = 0
     /\ Goto(t, r.next)
     /\ IF r.call = "Size"
        THEN /\ SetLocals(t, [r EXCEPT !.size = LRU_Size(pin_lists)])
             /\ KeepReplacer
        ELSE IF r.call = "Victim"
        THEN /\ SetLocals(t, [r EXCEPT !.ret = v.ok,
                                       !.frame_id = IF v.ok THEN v.frame
                                                    ELSE r.frame_id])
             /\ SetReplacer([list |-> v.list, map |-> v.map], <<VictimCall>>)
        ELSE IF r.call = "Pin"
        THEN /\ UNCHANGED loc
             /\ SetReplacer(LRU_Pin(pin_lists, pin_map_table, r.arg),
                            <<PinCall(r.arg)>>)
        ELSE /\ UNCHANGED loc
             /\ SetReplacer(LRU_Unpin(pin_lists, pin_map_table, num_pages,
                                      r.arg), <<UnpinCall(r.arg)>>)
     /\ UNCHANGED <<mgrVars, latch, data, calls, last>>

\* Mutant of LatchAfterReturn: a return path that leaves latch_ locked.
LatchAfterReturn_Kept(t) == latch

\* ~lock_guard: the thread that holds latch_ unlocks it.
LatchAfterReturn(t) == IF latch = t THEN 0 ELSE latch

\* The operation returns; its call is recorded.
Return(t) ==
  LET r == loc[t]
  IN /\ pc[t] = "return"
     /\ latch' = LatchAfterReturn(t)
     /\ last' = Call(r.op, r.page_id, r.ret, r.frame_id, "none", r.io)
     /\ SetLocals(t, NoLocals)
     /\ Goto(t, "idle")
     /\ UNCHANGED <<mgrVars, mutex_lock, data, calls>>
     /\ KeepReplacer

\* What a step of the manager leaves alone besides what it names.
ThreadsKeep == UNCHANGED <<latch, mutex_lock, calls, last>>

\* NewPgImp, line 83: Size() is called only when the free list is empty.
New_check(t) ==
  LET r == loc[t]
  IN /\ pc[t] = "body"
     /\ r.op = "NewPage"
     /\ IF free_list # <<>>
        THEN Goto(t, "alloc") /\ UNCHANGED loc
        ELSE ReplacerCall(t, r, "Size", NoFrame, "sized")
     /\ UNCHANGED <<mgrVars, data>>
     /\ ThreadsKeep
     /\ KeepReplacer

\* NewPgImp, lines 83-85, after Size() has returned.
New_sized(t) ==
  LET r == loc[t]
  IN /\ pc[t] = "sized"
     /\ IF r.size = 0
        THEN Returns(t, r, FALSE)
        ELSE Goto(t, "alloc") /\ UNCHANGED loc
     /\ UNCHANGED <<mgrVars, data>>
     /\ ThreadsKeep
     /\ KeepReplacer

\* NewPgImp, lines 87-96: AllocatePage, then a free frame or a Victim call.
New_alloc(t) ==
  LET r == loc[t]
      a == AllocatePage(next_page_id, num_instances)
  IN /\ pc[t] = "alloc"
     /\ next_page_id' = a.next
     /\ IF free_list # <<>>
        THEN /\ free_list' = FreeListPopBack(free_list)
             /\ SetLocals(t, [r EXCEPT !.page_id = a.id,
                                       !.frame_id = FreeListBack(free_list)])
             /\ Goto(t, "meta")
        ELSE /\ UNCHANGED free_list
             /\ ReplacerCall(t, [r EXCEPT !.page_id = a.id], "Victim",
                             NoFrame, "victim")
     /\ UNCHANGED <<pages, page_table, num_instances, instance_index,
                    allocated, data>>
     /\ ThreadsKeep
     /\ KeepReplacer

\* NewPgImp, lines 96-105, after Victim has returned: write-back and erase.
New_victim(t) ==
  LET r == loc[t]
      f == r.frame_id
  IN /\ pc[t] = "victim"
     /\ r.op = "NewPage"
     /\ IF ~r.ret
        THEN /\ Returns(t, r, FALSE)
             /\ UNCHANGED <<pages, page_table>>
        ELSE /\ SetLocals(t, [r EXCEPT !.io = r.io \o WriteBackCalls(f)])
             /\ pages' = [pages EXCEPT ![f].is_dirty = FALSE]
             /\ page_table' = MapErase(page_table, pages[f].page_id)
             /\ Goto(t, "meta")
     /\ UNCHANGED <<free_list, next_page_id, num_instances, instance_index,
                    allocated, data>>
     /\ ThreadsKeep
     /\ KeepReplacer

\* NewPgImp, lines 107-109: is_dirty_, pin_count_, page_id_.
New_meta(t) ==
  LET r == loc[t]
  IN /\ pc[t] = "meta"
     /\ pages' = [pages EXCEPT ![r.frame_id] =
                    [page_id |-> r.page_id, pin_count |-> 1,
                     is_dirty |-> FALSE]]
     /\ Goto(t, "reset")
     /\ UNCHANGED <<page_table, free_list, next_page_id, num_instances,
                    instance_index, allocated, data, loc>>
     /\ ThreadsKeep
     /\ KeepReplacer

\* NewPgImp, lines 110-113: ResetMemory, page_table_ entry, then Pin.
New_reset(t) ==
  LET r == loc[t]
      f == r.frame_id
  IN /\ pc[t] = "reset"
     /\ data' = [data EXCEPT ![f] = r.page_id]
     /\ page_table' = MapPut(page_table, r.page_id, f)
     /\ allocated' = allocated \cup {r.page_id}
     /\ ReplacerCall(t, [r EXCEPT !.io = r.io \o <<ResetCall(f)>>,
                                  !.ret = TRUE], "Pin", f, "return")
     /\ UNCHANGED <<pages, free_list, next_page_id, num_instances,
                    instance_index>>
     /\ ThreadsKeep
     /\ KeepReplacer

\* FetchPgImp, lines 126-144: the lookup, then Pin, a free frame or Victim.
Fetch_find(t) ==
  LET r == loc[t]
  IN /\ pc[t] = "body"
     /\ r.op = "FetchPage"
     /\ IF r.page_id \in DOMAIN page_table
        THEN /\ ReplacerCall(t, [r EXCEPT !.frame_id = page_table[r.page_id]],
                             "Pin", page_table[r.page_id], "hit")
             /\ UNCHANGED free_list
        ELSE IF free_list # <<>>
        THEN /\ free_list' = FreeListPopBack(free_list)
             /\ SetLocals(t, [r EXCEPT !.frame_id = FreeListBack(free_list)])
             /\ Goto(t, "load")
        ELSE /\ UNCHANGED free_list
             /\ ReplacerCall(t, r, "Victim", NoFrame, "victim")
     /\ UNCHANGED <<pages, page_table, next_page_id, num_instances,
                    instance_index, allocated, data>>
     /\ ThreadsKeep
     /\ KeepReplacer

\* FetchPgImp, lines 130-132.
Fetch_hit(t) ==
  LET r == loc[t]
  IN /\ pc[t] = "hit"
     /\ pages' = [pages EXCEPT ![r.frame_id].pin_count = @ + 1]
     /\ Returns(t, r, TRUE)
     /\ UNCHANGED <<page_table, free_list, next_page_id, num_instances,
                    instance_index, allocated, data>>
     /\ ThreadsKeep
     /\ KeepReplacer

\* FetchPgImp, lines 141-144, after Victim has returned.
Fetch_victim(t) ==
  LET r == loc[t]
  IN /\ pc[t] = "victim"
     /\ r.op = "FetchPage"
     /\ IF ~r.ret
        THEN Returns(t, r, FALSE)
        ELSE Goto(t, "load") /\ UNCHANGED loc
     /\ UNCHANGED <<mgrVars, data>>
     /\ ThreadsKeep
     /\ KeepReplacer

\* FetchPgImp, lines 147-154: write-back, page_table_, the frame's fields.
Fetch_load(t) ==
  LET r == loc[t]
      f == r.frame_id
  IN /\ pc[t] = "load"
     /\ SetLocals(t, [r EXCEPT !.io = r.io \o WriteBackCalls(f)])
     /\ page_table' = MapPut(MapErase(page_table, pages[f].page_id),
                             r.page_id, f)
     /\ pages' = [pages EXCEPT ![f] =
                    [page_id |-> r.page_id, pin_count |-> 1,
                     is_dirty |-> FALSE]]
     /\ Goto(t, "read")
     /\ UNCHANGED <<free_list, next_page_id, num_instances, instance_index,
                    allocated, data>>
     /\ ThreadsKeep
     /\ KeepReplacer

\* FetchPgImp, lines 155-156: ReadPage into the frame's buffer.
Fetch_read(t) ==
  LET r == loc[t]
      f == r.frame_id
  IN /\ pc[t] = "read"
     /\ data' = [data EXCEPT ![f] = r.page_id]
     /\ Returns(t, [r EXCEPT !.io = r.io \o <<ReadCall(r.page_id, f)>>], TRUE)
     /\ UNCHANGED mgrVars
     /\ ThreadsKeep
     /\ KeepReplacer

\* DeletePgImp, lines 169-180.
Delete_body(t) ==
  LET r == loc[t]
      f == page_table[r.page_id]
  IN /\ pc[t] = "body"
     /\ r.op = "DeletePage"
     /\ IF r.page_id \notin DOMAIN page_table
        THEN /\ Returns(t, r, TRUE)
             /\ UNCHANGED <<pages, page_table, free_list>>
        ELSE IF pages[f].pin_count # 0
        THEN /\ Returns(t, [r EXCEPT !.frame_id = f], FALSE)
             /\ UNCHANGED <<pages, page_table, free_list>>
        ELSE /\ pages' = [pages EXCEPT ![f].page_id = INVALID_PAGE_ID,
                                       ![f].is_dirty = FALSE]
             /\ free_list' = FreeListEmplaceFront(free_list, f)
             /\ page_table' = MapErase(page_table, r.page_id)
             /\ Returns(t, [r EXCEPT !.frame_id = f], TRUE)
     /\ UNCHANGED <<next_page_id, num_instances, instance_index, allocated,
                    data>>
     /\ ThreadsKeep
     /\ KeepReplacer

\* UnpinPgImp, lines 185-199; Unpin is called when the pin count reaches 0.
Unpin_body(t) ==
  LET r == loc[t]
      f == page_table[r.page_id]
  IN /\ pc[t] = "body"
     /\ r.op = "UnpinPage"
     /\ IF r.page_id \notin DOMAIN page_table
        THEN Returns(t, r, FALSE) /\ UNCHANGED pages
        ELSE IF UnpinRefused(pages[f].pin_count)
        THEN Returns(t, [r EXCEPT !.frame_id = f], FALSE) /\ UNCHANGED pages
        ELSE /\ pages' = [pages EXCEPT
                            ![f].is_dirty = UnpinDirty(@, r.is_dirty),
                            ![f].pin_count = @ - 1]
             /\ IF pages[f].pin_count - 1 = 0
                THEN ReplacerCall(t, [r EXCEPT !.frame_id = f, !.ret = TRUE],
                                  "Unpin", f, "return")
                ELSE Returns(t, [r EXCEPT !.frame_id = f], TRUE)
     /\ UNCHANGED <<page_table, free_list, next_page_id, num_instances,
                    instance_index, allocated, data>>
     /\ ThreadsKeep
     /\ KeepReplacer

\* FlushPgImp, lines 54-62.
Flush_body(t) ==
  LET r == loc[t]
      f == page_table[r.page_id]
  IN /\ pc[t] = "body"
     /\ r.op = "FlushPage"
     /\ IF r.page_id = INVALID_PAGE_ID \/ r.page_id \notin DOMAIN page_table
        THEN Returns(t, r, FALSE) /\ UNCHANGED pages
        ELSE /\ pages' = [pages EXCEPT ![f].is_dirty = FALSE]
             /\ Returns(t, [r EXCEPT !.frame_id = f,
                                     !.io = FlushCalls(r.page_id, f)], TRUE)
     /\ UNCHANGED <<page_table, free_list, next_page_id, num_instances,
                    instance_index, allocated, data>>
     /\ ThreadsKeep
     /\ KeepReplacer

\* FlushAllPgsImp, lines 67-68: the loop test and pages_[i].IsDirty().
FlushAll_test(t) ==
  LET r == loc[t]
  IN /\ pc[t] = "fa_test"
     /\ IF r.i >= PoolSize
        THEN Returns(t, r, TRUE)
        ELSE IF pages[r.i].is_dirty
        THEN Goto(t, "fa_write") /\ UNCHANGED loc
        ELSE SetLocals(t, [r EXCEPT !.i = r.i + 1]) /\ UNCHANGED pc
     /\ UNCHANGED <<mgrVars, data>>
     /\ ThreadsKeep
     /\ KeepReplacer

\* FlushAllPgsImp, line 69: WritePage(pages_[i].GetPageId(), pages_[i].data_).
FlushAll_write(t) ==
  LET r == loc[t]
  IN /\ pc[t] = "fa_write"
     /\ SetLocals(t, [r EXCEPT
                        !.io = r.io \o <<WriteCall(pages[r.i].page_id, r.i)>>])
     /\ Goto(t, "fa_clear")
     /\ UNCHANGED <<mgrVars, data>>
     /\ ThreadsKeep
     /\ KeepReplacer

\* FlushAllPgsImp, line 70: is_dirty_ = false, and the loop's i++.
FlushAll_clear(t) ==
  LET r == loc[t]
  IN /\ pc[t] = "fa_clear"
     /\ pages' = [pages EXCEPT ![r.i].is_dirty = FALSE]
     /\ SetLocals(t, [r EXCEPT !.i = r.i + 1])
     /\ Goto(t, "fa_test")
     /\ UNCHANGED <<page_table, free_list, next_page_id, num_instances,
                    instance_index, allocated, data>>
     /\ ThreadsKeep
     /\ KeepReplacer

\* A step of thread t inside an operation, other than taking a lock.
Run(t) ==
  \/ ReplacerRun(t)
  \/ Return(t)
  \/ New_check(t)
  \/ New_sized(t)
  \/ New_alloc(t)
  \/ New_victim(t)
  \/ New_meta(t)
  \/ New_reset(t)
  \/ Fetch_find(t)
  \/ Fetch_hit(t)
  \/ Fetch_victim(t)
  \/ Fetch_load(t)
  \/ Fetch_read(t)
  \/ Delete_body(t)
  \/ Unpin_body(t)
  \/ Flush_body(t)
  \/ FlushAll_test(t)
  \/ FlushAll_write(t)
  \/ FlushAll_clear(t)

\* The calls: NewPage and FlushAllPages take no page id, the others one that
\* NewPage has returned.
Calls(t) ==
  \/ \E op \in {"NewPage", "FlushAllPages"} :
       CallOp(t, op, INVALID_PAGE_ID, FALSE)
  \/ \E op \in {"FetchPage", "DeletePage", "FlushPage"} :
       \E p \in allocated : CallOp(t, op, p, FALSE)
  \/ \E p \in allocated, b \in BOOLEAN : CallOp(t, "UnpinPage", p, b)

NextConc ==
  \E t \in Threads : Calls(t) \/ Lock(t) \/ ReplacerLock(t) \/ Run(t)

SpecConc == Init /\ [][NextConc]_vars

\* Every thread that can take a step inside an operation takes one, and a
\* thread that waits for a mutex takes it if the mutex stays free.
SpecConcFair ==
  /\ SpecConc
  /\ \A t \in Threads :
       WF_vars(Run(t)) /\ WF_vars(Lock(t)) /\ WF_vars(ReplacerLock(t))

\* ------------------------------------------- LRUReplacer on its own
LRUFrames == 0 .. (NumFrames - 1)

InitLRU ==
  /\ pages = [f \in Frames |->
                [page_id |-> INVALID_PAGE_ID, pin_count |-> 0,
                 is_dirty |-> FALSE]]
  /\ page_table = EmptyMap
  /\ free_list = [k \in 1 .. PoolSize |-> k - 1]
  /\ next_page_id = 0
  /\ num_instances = 1
  /\ instance_index = 0
  /\ pin_lists = <<>>
  /\ pin_map_table = EmptyMap
  /\ num_pages \in 1 .. NumFrames
  /\ allocated = {}
  /\ eligOrder = <<>>
  /\ last = Call("init", INVALID_PAGE_ID, FALSE, NoFrame, "none", <<>>)
  /\ lru2 = NoReplacer2
  /\ InitThreads

\* The frame that became eligible first among those eligible now.
Oldest == IF eligOrder = <<>> THEN NoFrame ELSE Head(eligOrder)

Victim ==
  LET v == LRU_Victim(pin_lists, pin_map_table)
  IN /\ SetReplacer([list |-> v.list, map |-> v.map], <<VictimCall>>)
     /\ last' = [Call("Victim", INVALID_PAGE_ID, v.ok,
                      IF v.ok THEN v.frame ELSE NoFrame, "none", <<>>)
                 EXCEPT !.oldest = Oldest]
     /\ UNCHANGED mgrVars
     /\ UNCHANGED concVars

Pin(frame_id) ==
  /\ SetReplacer(LRU_Pin(pin_lists, pin_map_table, frame_id),
                 <<PinCall(frame_id)>>)
  /\ last' = Call("Pin", INVALID_PAGE_ID, TRUE, frame_id, "none", <<>>)
  /\ UNCHANGED mgrVars
  /\ UNCHANGED concVars

Unpin(frame_id) ==
  /\ SetReplacer(LRU_Unpin(pin_lists, pin_map_table, num_pages, frame_id),
                 <<UnpinCall(frame_id)>>)
  /\ last' = Call("Unpin", INVALID_PAGE_ID, TRUE, frame_id, "none", <<>>)
  /\ UNCHANGED mgrVars
  /\ UNCHANGED concVars

NextLRU ==
  \/ Victim
  \/ \E f \in LRUFrames : Pin(f)
  \/ \E f \in LRUFrames : Unpin(f)

SpecLRU == InitLRU /\ [][NextLRU]_vars

\* ----------------------------------------------------------------- claims
Resident(f) == pages[f].page_id \in DOMAIN page_table

Eligible(f) == f \in Range(pin_lists)

WritesOf(io) == SelectSeq(io, LAMBDA c : c.call = "WritePage")

\* C1: whenever NewPage or a FetchPage miss takes a frame from Victim, that
\* frame's pin count is 0 at that moment, and no step removes a pinned page
\* from the page directory or puts another page in its frame.
NoEvictionUnderPin ==
  [][/\ last'.src = "victim" => pages[last'.frame].pin_count = 0
     /\ \A p \in DOMAIN page_table :
          pages[page_table[p]].pin_count > 0 =>
            /\ p \in DOMAIN page_table'
            /\ page_table'[p] = page_table[p]
            /\ pages'[page_table[p]].page_id = pages[page_table[p]].page_id]_vars

\* C2: for every frame that holds a resident page, its pin count is 0 exactly
\* when the frame is in the replacer's eligible list.
PinEligibleDuality ==
  \A f \in Frames : Resident(f) => (pages[f].pin_count = 0 <=> Eligible(f))

\* C3: the free list and the page directory together hold poolSize frames,
\* and no frame is in both.
CapacityInvariant ==
  /\ Len(free_list) + Cardinality(DOMAIN page_table) = PoolSize
  /\ \A p \in DOMAIN page_table : page_table[p] \notin Range(free_list)

\* C4: no two frames hold the same non-sentinel page id, and the page
\* directory maps p to f exactly when frame f's page id is p.
DirectoryConsistent ==
  /\ \A f, g \in Frames :
       (f # g /\ pages[f].page_id # INVALID_PAGE_ID) =>
         pages[f].page_id # pages[g].page_id
  /\ \A p \in DOMAIN page_table : pages[page_table[p]].page_id = p
  /\ \A f \in Frames :
       pages[f].page_id # INVALID_PAGE_ID =>
         /\ pages[f].page_id \in DOMAIN page_table
         /\ page_table[pages[f].page_id] = f

\* C5: the replacer's list is kept in the order in which its frames last
\* became eligible (an Unpin of a frame that is already eligible moves
\* nothing), Victim removes and returns the frame that became eligible
\* first, and it fails only when no frame is eligible.
LRUOrder ==
  /\ eligOrder = Reverse(pin_lists)
  /\ (last.op = "Victim" /\ last.ret) =>
       /\ last.frame = last.oldest
       /\ last.frame \notin Range(pin_lists)
  /\ (last.op = "Victim" /\ ~last.ret) => last.oldest = NoFrame

\* C5 witness: three frames were unpinned and Victim has returned the first.
LRUOrderWitness ==
  /\ last.op = "Victim"
  /\ last.ret
  /\ Len(pin_lists) = 2
  /\ last.frame \notin Range(pin_lists)

\* C6: a step that reuses a frame taken from Victim makes, when the frame is
\* dirty, exactly one WritePage call, with the frame's old page id and its
\* buffer, before any other call on that buffer; when the frame is clean it
\* makes no WritePage call.
DirtyWriteBack ==
  [][last'.src = "victim" =>
       LET f == last'.frame
       IN IF pages[f].is_dirty
          THEN /\ WritesOf(last'.io) = <<WriteCall(pages[f].page_id, f)>>
               /\ Head(last'.io) = WriteCall(pages[f].page_id, f)
               /\ Len(last'.io) = 2
          ELSE WritesOf(last'.io) = <<>>]_vars

\* C6 witness: a frame came from Victim and its old page was written back.
DirtyWriteBackWitness ==
  /\ last.src = "victim"
  /\ Len(last.io) = 2
  /\ last.io[1].call = "WritePage"
  /\ last.io[1].page # last.page

\* C7: UnpinPage(p, TRUE) leaves the page dirty, and a dirty frame stays
\* dirty with the same page unless the step writes that page from that frame
\* (FlushPage, FlushAllPages, eviction) or is a successful DeletePage of it.
DirtyKept ==
  [][/\ \A p \in PageIds :
          (UnpinPgImp(p, TRUE) /\ last'.ret) => pages'[last'.frame].is_dirty
     /\ \A f \in Frames :
          pages[f].is_dirty =>
            \/ pages'[f].is_dirty /\ pages'[f].page_id = pages[f].page_id
            \/ WriteCall(pages[f].page_id, f) \in Range(last'.io)
            \/ /\ last'.op = "DeletePage"
               /\ last'.ret
               /\ last'.frame = f
               /\ last'.page = pages[f].page_id]_vars

\* C7 witness: a dirty page was fetched again (a hit) and is still dirty.
DirtyKeptWitness ==
  /\ last.op = "FetchPage"
  /\ last.src = "hit"
  /\ pages[last.frame].is_dirty
  /\ pages[last.frame].pin_count = 1

\* C8: every id NewPage returns is congruent to instance_index modulo
\* num_instances (so to no other index), and is greater than every id
\* returned before.
PartitionedIds ==
  /\ [](\A id \in allocated :
          {j \in 0 .. (num_instances - 1) : id % num_instances = j}
            = {instance_index})
  /\ [][(NewPgImp /\ last'.ret) =>
          /\ last'.page % num_instances = instance_index
          /\ \A id \in allocated : id < last'.page]_vars

\* C8 witness: instance 1 of 2 has returned two ids.
PartitionedIdsWitness ==
  /\ num_instances = 2
  /\ instance_index = 1
  /\ Cardinality(allocated) = 2
  /\ last.op = "NewPage"
  /\ last.ret

\* C9: after a successful DeletePage of a resident page its frame is in the
\* free list and not in the eligible list; no frame is in both lists, and
\* every eligible frame holds a resident page.
DeleteLeavesReplacer ==
  /\ (last.op = "DeletePage" /\ last.ret /\ last.frame # NoFrame) =>
       /\ last.frame \in Range(free_list)
       /\ ~Eligible(last.frame)
  /\ Range(free_list) \cap Range(pin_lists) = {}
  /\ \A f \in Range(pin_lists) : Resident(f)

\* C10: when DeletePage has freed frame f into a free list that held other
\* frames, the next NewPage or FetchPage miss takes frame f.
DeletedFrameFirst ==
  [][(/\ last.op = "DeletePage"
      /\ last.ret
      /\ last.frame # NoFrame
      /\ Len(free_list) >= 2
      /\ last'.src = "free") => last'.frame = last.frame]_vars

\* A step that applied nothing: frames, page directory, free list and the
\* replacer's list are as they were and no disk call was made.
NothingApplied ==
  /\ UNCHANGED <<pages, page_table, free_list, pin_lists>>
  /\ last'.io = <<>>

\* C11: UnpinPage of a non-resident page or of a page with pin count 0
\* returns false (a successful one found a resident page with a positive pin
\* count), FlushPage of the sentinel or of a non-resident id returns false,
\* DeletePage of a pinned page returns false, and each failing call, like
\* the DeletePage that found no page and returned true, leaves frames,
\* directory, free list and eligible list unchanged and makes no disk call.
FailureLeavesState ==
  [][/\ (last'.op = "UnpinPage" /\ last'.ret) =>
          /\ last'.page \in DOMAIN page_table
          /\ page_table[last'.page] = last'.frame
          /\ pages[last'.frame].pin_count > 0
     /\ (last'.op = "FlushPage" /\ last'.ret) =>
          /\ last'.page # INVALID_PAGE_ID
          /\ last'.page \in DOMAIN page_table
     /\ (last'.op = "DeletePage" /\ last'.ret /\ last'.frame # NoFrame) =>
          /\ last'.page \in DOMAIN page_table
          /\ pages[last'.frame].pin_count = 0
     /\ (last'.op = "DeletePage" /\ ~last'.ret) =>
          /\ last'.page \in DOMAIN page_table
          /\ pages[last'.frame].pin_count # 0
     /\ (/\ last'.op \in {"UnpinPage", "FlushPage", "DeletePage", "NewPage",
                          "FetchPage"}
         /\ (~last'.ret \/ (last'.op = "DeletePage" /\ last'.frame = NoFrame)))
          => NothingApplied]_vars

\* C11 witness: NewPage has just failed while a dirty page is resident.
FailureLeavesStateWitness ==
  /\ last.op = "NewPage"
  /\ ~last.ret
  /\ free_list = <<>>
  /\ \E f \in Frames : pages[f].is_dirty /\ pages[f].pin_count > 0

ReadsOf(io) == SelectSeq(io, LAMBDA c : c.call = "ReadPage")

\* C12: a FetchPage of a page that is in the page directory makes no disk
\* call and returns the directory's frame, which holds that page; a
\* successful FetchPage of a page that is not makes exactly one ReadPage
\* call, with the requested id and the buffer of the frame it returns, and
\* leaves that frame with pin count 1 and clean.
ReadOnlyOnMiss ==
  [][(last'.op = "FetchPage" /\ last'.ret) =>
       LET p == last'.page
           f == last'.frame
       IN IF p \in DOMAIN page_table
          THEN /\ last'.io = <<>>
               /\ f = page_table[p]
               /\ pages[f].page_id = p
               /\ pages'[f].page_id = p
          ELSE /\ Len(ReadsOf(last'.io)) = 1
               /\ ReadsOf(last'.io)[1].page = p
               /\ ReadsOf(last'.io)[1].frame = f
               /\ pages'[f] = [page_id |-> p, pin_count |-> 1,
                               is_dirty |-> FALSE]]_vars

\* C12 witness: a FetchPage miss has read its page into a frame it took from
\* the free list.
ReadOnlyOnMissWitness ==
  /\ last.op = "FetchPage"
  /\ last.ret
  /\ last.src = "free"
  /\ Len(last.io) = 1
  /\ last.io[1].call = "ReadPage"
  /\ pages[last.frame].pin_count = 1

\* A step counts pins: a successful NewPage or FetchPage adds one pin to the
\* page it returns (the first pin of a page that was not resident), a
\* successful UnpinPage takes one away, and the pin count of every other
\* page that stays resident in its frame is unchanged.
PinStep ==
  LET p == last'.page
      f == last'.frame
      pinning == last'.op \in {"NewPage", "FetchPage"} /\ last'.ret
      unpinning == last'.op = "UnpinPage" /\ last'.ret
  IN /\ pinning =>
          pages'[f].pin_count =
            IF p \in DOMAIN page_table THEN pages[f].pin_count + 1 ELSE 1
     /\ unpinning => pages'[f].pin_count = pages[f].pin_count - 1
     /\ \A q \in DOMAIN page_table :
          (/\ q \in DOMAIN page_table'
           /\ page_table'[q] = page_table[q]
           /\ ~((pinning \/ unpinning) /\ page_table[q] = f))
            => pages'[page_table[q]].pin_count = pages[page_table[q]].pin_count

\* A frame enters the replacer's list only in the successful UnpinPage that
\* takes the last pin of its page away.
EligibleStep ==
  \A f \in Frames :
    (~Eligible(f) /\ f \in Range(pin_lists')) =>
      /\ last'.op = "UnpinPage"
      /\ last'.ret
      /\ last'.frame = f
      /\ pages'[f].pin_count = 0

\* C13: pin counts are never negative and change by the pins and unpins of
\* the page; a resident page is eligible for eviction only while its pin
\* count is 0, which it reaches in its last successful UnpinPage; an
\* UnpinPage of a page with pin count 0 returns false.
PinsCounted ==
  /\ [](\A f \in Frames :
          /\ pages[f].pin_count >= 0
          /\ (Resident(f) /\ Eligible(f)) => pages[f].pin_count = 0)
  /\ [][/\ PinStep
        /\ EligibleStep
        /\ (last'.op = "UnpinPage" /\ last'.ret) =>
             pages[last'.frame].pin_count > 0]_vars

\* C14: FlushPage of a page in the page directory returns true, makes one
\* WritePage call with that page's id and its frame's buffer when the page
\* is dirty and no disk call when it is clean, leaves the page clean, and
\* changes nothing else: pin counts, page ids, the page directory, the free
\* list and the replacer's list are as before.
FlushOnlyCleans ==
  [][\A p \in PageIds \ {INVALID_PAGE_ID} :
       (FlushPgImp(p) /\ p \in DOMAIN page_table) =>
         LET f == page_table[p]
         IN /\ last'.ret
            /\ pages[f].page_id = p
            /\ IF pages[f].is_dirty
               THEN /\ Len(last'.io) = 1
                    /\ last'.io[1].call = "WritePage"
                    /\ last'.io[1].page = p
                    /\ last'.io[1].frame = f
               ELSE last'.io = <<>>
            /\ pages' = [pages EXCEPT ![f].is_dirty = FALSE]
            /\ UNCHANGED <<page_table, free_list, pin_lists, pin_map_table,
                           eligOrder>>]_vars

\* C14 witness: a dirty page that is unpinned and eligible has been flushed.
FlushOnlyCleansWitness ==
  /\ last.op = "FlushPage"
  /\ last.ret
  /\ Len(last.io) = 1
  /\ pages[last.frame].pin_count = 0
  /\ Eligible(last.frame)
  /\ ~pages[last.frame].is_dirty

\* Every frame is pinned and none is free.
AllPinned ==
  /\ free_list = <<>>
  /\ \A f \in Frames : pages[f].pin_count > 0

\* A frame is free, or a page of the directory has pin count 0.
FrameAvailable ==
  \/ free_list # <<>>
  \/ \E p \in DOMAIN page_table : pages[page_table[p]].pin_count = 0

\* The pool of the scenario after NewPage, NewPage: page 0 in the frame taken
\* first, page 1 in the other, both pinned once and clean.
TwoPinned ==
  /\ next_page_id = 2
  /\ free_list = <<>>
  /\ pin_lists = <<>>
  /\ page_table = (0 :> FreeListBack(<<0, 1>>) @@ 1 :> 0)
  /\ pages = (0 :> [page_id |-> 1, pin_count |-> 1, is_dirty |-> FALSE]
              @@ 1 :> [page_id |-> 0, pin_count |-> 1, is_dirty |-> FALSE])

\* The same pool after UnpinPage(0, false).
FirstUnpinned ==
  /\ next_page_id = 2
  /\ free_list = <<>>
  /\ pin_lists = <<1>>
  /\ page_table = (0 :> 1 @@ 1 :> 0)
  /\ pages = (0 :> [page_id |-> 1, pin_count |-> 1, is_dirty |-> FALSE]
              @@ 1 :> [page_id |-> 0, pin_count |-> 0, is_dirty |-> FALSE])

\* C15: NewPage and FetchPage fail only when the free list is empty and
\* every frame is pinned, never when a frame is free or a page of the
\* directory has pin count 0. In the scenario with two frames: after
\* NewPage, NewPage a third NewPage fails, UnpinPage(0, false) returns true,
\* and the next NewPage succeeds in the frame of page 0 without a WritePage.
ExhaustedOnlyWhenPinned ==
  [][/\ (last'.op \in {"NewPage", "FetchPage"} /\ ~last'.ret) =>
          (AllPinned /\ ~FrameAvailable)
     /\ (TwoPinned /\ NewPgImp) => ~last'.ret
     /\ (TwoPinned /\ UnpinPgImp(0, FALSE)) => (last'.ret /\ FirstUnpinned')
     /\ (FirstUnpinned /\ NewPgImp) =>
          /\ last'.ret
          /\ last'.frame = 1
          /\ last'.src = "victim"
          /\ WritesOf(last'.io) = <<>>
          /\ 0 \notin DOMAIN page_table']_vars

\* C15 witness: the scenario's last NewPage has reused the frame of page 0.
ExhaustedOnlyWhenPinnedWitness ==
  /\ last.op = "NewPage"
  /\ last.ret
  /\ last.src = "victim"
  /\ last.frame = 1
  /\ last.page = 2
  /\ last.io = <<ResetCall(1)>>
  /\ pages[0] = [page_id |-> 1, pin_count |-> 1, is_dirty |-> FALSE]
  /\ page_table = (1 :> 0 @@ 2 :> 1)

\* C18: every frame of the free list holds the sentinel page id, has pin
\* count 0 and is clean, and no call writes a page under the sentinel id.
FreeFramesClean ==
  /\ \A f \in Range(free_list) :
       pages[f] = [page_id |-> INVALID_PAGE_ID, pin_count |-> 0,
                   is_dirty |-> FALSE]
  /\ \A i \in 1 .. Len(last.io) :
       last.io[i].call = "WritePage" => last.io[i].page # INVALID_PAGE_ID

\* C19: the k-th successful NewPage of instance i of N (k counted from 0)
\* returns i + k * N whatever was called in between, and a failed NewPage
\* writes no page id to its caller and leaves next_page_id_ unchanged.
FailedNewPageKeepsId ==
  /\ [](next_page_id = instance_index + Cardinality(allocated) * num_instances)
  /\ [][/\ (NewPgImp /\ last'.ret) =>
             last'.page = instance_index + Cardinality(allocated) * num_instances
        /\ (NewPgImp /\ ~last'.ret) =>
             /\ last'.page = INVALID_PAGE_ID
             /\ UNCHANGED <<next_page_id, allocated>>]_vars

\* C19 witness: instance 1 of 2 has returned ids 1 and 3 and its next NewPage
\* has failed, with 5 still the next id.
FailedNewPageKeepsIdWitness ==
  /\ num_instances = 2
  /\ instance_index = 1
  /\ allocated = {1, 3}
  /\ last.op = "NewPage"
  /\ ~last.ret
  /\ next_page_id = 5

\* C20: given the calls the manager makes on its replacer, the second
\* LRUReplacer definition holds the same list in the same order as the first
\* (so Victim returns the same frame and Size the same number), and none of
\* its per-frame counters is negative.
ReplacersAgree ==
  /\ lru2.list = pin_lists
  /\ \A f \in DOMAIN lru2.count : lru2.count[f] >= 0

\* Thread t is inside an operation, between its first and its last access
\* to frames, page directory, free list or replacer.
Accessing(t) == pc[t] \notin {"idle", "lock", "return"}

\* Every WritePage call of this step is given the id of the page whose bytes
\* the frame's buffer holds.
WritePaired ==
  \A t \in Threads :
    \A k \in (Len(loc[t].io) + 1) .. Len(loc'[t].io) :
      loc'[t].io[k].call = "WritePage" =>
        loc'[t].io[k].page = data[loc'[t].io[k].frame]

\* C16: with threads calling the operations concurrently, at most one
\* thread at a time is inside an operation (FlushAllPages included), and
\* every WritePage call pairs a page id with the buffer contents of that
\* page.
AtomicOperations ==
  /\ [](\A t, u \in Threads : (Accessing(t) /\ Accessing(u)) => t = u)
  /\ [][WritePaired]_vars

\* The replacer's lock is held only by the thread that holds the latch, and
\* a thread between calls holds neither.
LockOrder ==
  /\ mutex_lock # 0 => latch = mutex_lock
  /\ \A t \in Threads : pc[t] = "idle" => (latch # t /\ mutex_lock # t)
  /\ \A t \in Threads : pc[t] = "lock" => mutex_lock # t

\* C17: the replacer's lock is acquired only by the holder of the manager's
\* latch and released before the latch is, the latch is never acquired by a
\* thread that holds the replacer's lock, every return releases both, and
\* every operation a thread has started completes.
DeadlockFree ==
  /\ []LockOrder
  /\ [][\A t \in Threads :
          /\ (mutex_lock' = t /\ mutex_lock # t) => latch = t
          /\ (latch' = t /\ latch # t) => mutex_lock # t
          /\ (latch = t /\ latch' # t) => (mutex_lock # t /\ mutex_lock' # t)]_vars
  /\ \A t \in Threads : (pc[t] # "idle") ~> (pc[t] = "idle")

\* C17 witness: one thread is in a replacer method, holding both locks,
\* while the other waits for the latch.
DeadlockFreeWitness ==
  \E t, u \in Threads :
    /\ pc[t] = "in_replacer"
    /\ latch = t
    /\ mutex_lock = t
    /\ pc[u] = "lock"

====
